---- MODULE Spec2Model ----
(***************************************************************************)
(* Model of the AQI breakpoint-interpolation engine of                     *)
(* src/backend/aqi_calculator.py.                                          *)
(*                                                                         *)
(* Numbers.  Concentrations are Python floats in the source.  Here a       *)
(* concentration is an integer count of 1/Scale units (Scale = 10^4, so    *)
(* 9.1 is 91000 and 0.054 is 540), and an index handed to the inverse      *)
(* mapping is an integer count of 1/AqiScale index units.  Interpolation   *)
(* is carried out exactly on rationals (quotient and remainder); the       *)
(* final round() is round-to-nearest.  Where the exact value lies exactly  *)
(* half way between two candidates the float computation of the source     *)
(* can land on either side (its intermediate quotient is inexact), so the  *)
(* rounding operators return the SET of values the call can return: one    *)
(* value everywhere except at exact ties, two at a tie.                    *)
(*                                                                         *)
(* Optional values (Python None) are sequences of length at most one:      *)
(* None is << >> and a value v is << v >>.                                 *)
(***************************************************************************)
EXTENDS Integers, Sequences, FiniteSets, TLC

VARIABLES
    tables,         \* the module-level tables: the breakpoint tables, the
                    \* category tables and the display names (mutable lists
                    \* and dicts of the module, read by every function)
    called,         \* history: some call has returned since the module was loaded
    op,             \* the call that has just returned, "none" when idle
    standard,       \* AQIStandard value selecting the table ("epa"/"naqi")
    pollutant,      \* pollutant key of the call
    concentration,  \* argument of calculate_aqi_for_pollutant (1/Scale units)
    aqi,            \* argument of epa_aqi_to_concentration (Optional, 1/AqiScale units)
    index,          \* value returned by calculate_aqi_for_pollutant
    estimate,       \* value returned by epa_aqi_to_concentration (Optional, 1/Scale units)
    cat_aqi,        \* argument aqi of get_aqi_category (index points)
    category,       \* value returned by get_aqi_category: <<category, color, message>>
    pollutants,     \* argument of calculate_aqi: the dict as a sequence of
                    \* <<key, Optional concentration>> in iteration order
    sample,         \* the random.uniform(0, 100) draw of calculate_aqi (Optional)
    result,         \* value returned by calculate_aqi (a record; the dict
                    \* individual_aqis as a sequence of <<name, value>>)
    epa_aqi_values, \* argument of calculate_naqi_from_epa_aqi: the dict as a
                    \* sequence of <<key, Optional index>> (1/AqiScale units)
    naqi_data,      \* value returned by calculate_naqi_from_epa_aqi (a record;
                    \* naqi is Optional, dicts are sequences of pairs)
    sheet,          \* the 'Subscriptions' tab: the rows in order, each
                    \* <<ID, Method, Contact, Status>> (columns A, B, C, H)
    now,            \* the UTC clock, in ticks of 1/TicksPerSecond seconds
    request,        \* the SubscriptionRequest of subscribe_to_alerts
    io,             \* what the request's I/O met: whether the service and
                    \* the sheet id are configured, and whether the read of
                    \* column C, ensure_headers and the append went through
    response,       \* the HTTP response of subscribe_to_alerts
    client_aqi,     \* argument of aqicn_client.get_aqi_category and of
                    \* get_health_message (Optional, index points)
    client_category,\* value returned by aqicn_client.get_aqi_category: <<category, color>>
    health_message, \* value returned by get_health_message
    feed,           \* the parsed feed fetch_aqi_by_location works on: aqi
                    \* (Optional), dominant_pollutant, pollutants (a dict as a
                    \* sequence of <<param, Optional value>>, 1/AqiScale units)
    fetched         \* value returned by fetch_aqi_by_location (a record)

\* arguments and return values of the two mappings
mapVars == <<standard, pollutant, concentration, aqi, index, estimate>>

\* argument and return value of the categorizer
catVars == <<cat_aqi, category>>

\* argument, random draw and return value of the aggregator
aggVars == <<pollutants, sample, result>>

\* argument and return value of the reconciler
recVars == <<epa_aqi_values, naqi_data>>

\* the spreadsheet, the clock, and a /subscribe request with its response
subVars == <<sheet, now, request, io, response>>

\* arguments and return values of the functions of aqicn_client
cliVars == <<client_aqi, client_category, health_message, feed, fetched>>

vars == <<tables, called, op, mapVars, catVars, aggVars, recVars, subVars, cliVars>>

----------------------------------------------------------------------------
(* Representation and bounds *)

\* concentration resolution: units per 1.0 (four decimal places)
Scale == 10000

\* units per 0.01: what round(x, 2) rounds to
Cent == Scale \div 100

\* index resolution of the inverse mapping's argument: units per index point
AqiScale == 2

\* largest index (in index points) handed to the inverse mapping
MaxAqi == 510

\* most negative index (in index points) handed to the inverse mapping
MaxNegAqi == 2

\* each bracket and each gap between brackets is sampled at Sub-ths
Sub == 4

\* negative concentrations -1.0 .. -MaxNeg.0 are tried
MaxNeg == 5

\* concentrations up to MaxAbove.0 above the top bracket are tried
MaxAbove == 2

\* most entries of a dict handed to calculate_aqi or calculate_naqi_from_epa_aqi
MaxEntries == 2

\* the random draw of calculate_aqi is one of the SampleDiv + 1 points that
\* divide [0, 100] into SampleDiv equal parts
SampleDiv == 10

\* at most MaxRows subscription rows are appended
MaxRows == 2

\* the clock is followed up to MaxNow ticks
MaxNow == 3

\* clock ticks per second (strftime('%Y%m%d%H%M%S') drops what is below a second)
TicksPerSecond == 2

None == << >>

Some(v) == << v >>

Min(S) == CHOOSE x \in S : \A y \in S : x <= y

Max(S) == CHOOSE x \in S : \A y \in S : x >= y

----------------------------------------------------------------------------
(* Breakpoint tables: rows are <<C_low, C_high, I_low, I_high>>,           *)
(* concentrations in 1/Scale units.                                        *)

\* a bug that keeps the first row of an older PM2.5 table (0.0 - 12.0),
\* which overlaps the second row
EPA_PM25_BREAKPOINTS_stale_row ==
    << <<0, 120000, 0, 50>>,
       <<91000, 354000, 51, 100>>,
       <<355000, 554000, 101, 150>>,
       <<555000, 1254000, 151, 200>>,
       <<1255000, 2254000, 201, 300>>,
       <<2255000, 3254000, 301, 500>> >>

EPA_PM25_BREAKPOINTS ==
    << <<0, 90000, 0, 50>>,
       <<91000, 354000, 51, 100>>,
       <<355000, 554000, 101, 150>>,
       <<555000, 1254000, 151, 200>>,
       <<1255000, 2254000, 201, 300>>,
       <<2255000, 3254000, 301, 500>> >>

EPA_PM10_BREAKPOINTS ==
    << <<0, 540000, 0, 50>>,
       <<550000, 1540000, 51, 100>>,
       <<1550000, 2540000, 101, 150>>,
       <<2550000, 3540000, 151, 200>>,
       <<3550000, 4240000, 201, 300>>,
       <<4250000, 6040000, 301, 500>> >>

EPA_O3_BREAKPOINTS ==
    << <<0, 540, 0, 50>>,
       <<550, 700, 51, 100>>,
       <<710, 850, 101, 150>>,
       <<860, 1050, 151, 200>>,
       <<1060, 2000, 201, 300>> >>

EPA_CO_BREAKPOINTS ==
    << <<0, 44000, 0, 50>>,
       <<45000, 94000, 51, 100>>,
       <<95000, 124000, 101, 150>>,
       <<125000, 154000, 151, 200>>,
       <<155000, 304000, 201, 300>>,
       <<305000, 504000, 301, 500>> >>

EPA_NO2_BREAKPOINTS ==
    << <<0, 530000, 0, 50>>,
       <<540000, 1000000, 51, 100>>,
       <<1010000, 3600000, 101, 150>>,
       <<3610000, 6490000, 151, 200>>,
       <<6500000, 12490000, 201, 300>>,
       <<12500000, 20490000, 301, 500>> >>

EPA_SO2_BREAKPOINTS ==
    << <<0, 350000, 0, 50>>,
       <<360000, 750000, 51, 100>>,
       <<760000, 1850000, 101, 150>>,
       <<1860000, 3040000, 151, 200>>,
       <<3050000, 6040000, 201, 300>>,
       <<6050000, 10040000, 301, 500>> >>

\* the dict EPA_BREAKPOINTS as the module builds it when it is loaded
EPA_BREAKPOINTS_loaded ==
    [ pm25 |-> EPA_PM25_BREAKPOINTS,
      pm10 |-> EPA_PM10_BREAKPOINTS,
      o3   |-> EPA_O3_BREAKPOINTS,
      co   |-> EPA_CO_BREAKPOINTS,
      no2  |-> EPA_NO2_BREAKPOINTS,
      so2  |-> EPA_SO2_BREAKPOINTS ]

\* the global EPA_BREAKPOINTS as the functions read it
EPA_BREAKPOINTS == tables.EPA_BREAKPOINTS

NAQI_PM25_BREAKPOINTS ==
    << <<0, 300000, 0, 50>>,
       <<310000, 600000, 51, 100>>,
       <<610000, 900000, 101, 200>>,
       <<910000, 1200000, 201, 300>>,
       <<1210000, 2500000, 301, 400>>,
       <<2510000, 5000000, 401, 500>> >>

NAQI_PM10_BREAKPOINTS ==
    << <<0, 500000, 0, 50>>,
       <<510000, 1000000, 51, 100>>,
       <<1010000, 2500000, 101, 200>>,
       <<2510000, 3500000, 201, 300>>,
       <<3510000, 4300000, 301, 400>>,
       <<4310000, 6000000, 401, 500>> >>

NAQI_O3_BREAKPOINTS ==
    << <<0, 500000, 0, 50>>,
       <<510000, 1000000, 51, 100>>,
       <<1010000, 1680000, 101, 200>>,
       <<1690000, 2080000, 201, 300>>,
       <<2090000, 7480000, 301, 400>>,
       <<7490000, 10000000, 401, 500>> >>

NAQI_CO_BREAKPOINTS ==
    << <<0, 10000, 0, 50>>,
       <<11000, 20000, 51, 100>>,
       <<21000, 100000, 101, 200>>,
       <<101000, 170000, 201, 300>>,
       <<171000, 340000, 301, 400>>,
       <<341000, 500000, 401, 500>> >>

NAQI_NO2_BREAKPOINTS ==
    << <<0, 400000, 0, 50>>,
       <<410000, 800000, 51, 100>>,
       <<810000, 1800000, 101, 200>>,
       <<1810000, 2800000, 201, 300>>,
       <<2810000, 4000000, 301, 400>>,
       <<4010000, 6000000, 401, 500>> >>

NAQI_SO2_BREAKPOINTS ==
    << <<0, 400000, 0, 50>>,
       <<410000, 800000, 51, 100>>,
       <<810000, 3800000, 101, 200>>,
       <<3810000, 8000000, 201, 300>>,
       <<8010000, 16000000, 301, 400>>,
       <<16010000, 24000000, 401, 500>> >>

NAQI_NH3_BREAKPOINTS ==
    << <<0, 2000000, 0, 50>>,
       <<2010000, 4000000, 51, 100>>,
       <<4010000, 8000000, 101, 200>>,
       <<8010000, 12000000, 201, 300>>,
       <<12010000, 18000000, 301, 400>>,
       <<18010000, 24000000, 401, 500>> >>

\* a bug that leaves the table of carbon monoxide out of the dict
NAQI_BREAKPOINTS_without_co ==
    [ pm25 |-> NAQI_PM25_BREAKPOINTS,
      pm10 |-> NAQI_PM10_BREAKPOINTS,
      o3   |-> NAQI_O3_BREAKPOINTS,
      no2  |-> NAQI_NO2_BREAKPOINTS,
      so2  |-> NAQI_SO2_BREAKPOINTS,
      nh3  |-> NAQI_NH3_BREAKPOINTS ]

\* the dict NAQI_BREAKPOINTS as the module builds it when it is loaded
NAQI_BREAKPOINTS_loaded ==
    [ pm25 |-> NAQI_PM25_BREAKPOINTS,
      pm10 |-> NAQI_PM10_BREAKPOINTS,
      o3   |-> NAQI_O3_BREAKPOINTS,
      co   |-> NAQI_CO_BREAKPOINTS,
      no2  |-> NAQI_NO2_BREAKPOINTS,
      so2  |-> NAQI_SO2_BREAKPOINTS,
      nh3  |-> NAQI_NH3_BREAKPOINTS ]

\* the global NAQI_BREAKPOINTS as the functions read it
NAQI_BREAKPOINTS == tables.NAQI_BREAKPOINTS

\* the two values of the AQIStandard enum
AQIStandard == {"epa", "naqi"}

\* breakpoint_table = EPA_BREAKPOINTS if standard == EPA else NAQI_BREAKPOINTS
breakpoint_table(std) == IF std = "epa" THEN EPA_BREAKPOINTS ELSE NAQI_BREAKPOINTS

----------------------------------------------------------------------------
(* Category tables: rows are <<threshold, category, color, message>> *)

\* the list EPA_CATEGORIES as the module builds it when it is loaded
EPA_CATEGORIES_loaded ==
    << <<50, "Good", "#00e400",
         "Air quality is satisfactory, and air pollution poses little or no risk.">>,
       <<100, "Moderate", "#ffff00",
         "Air quality is acceptable. However, there may be a risk for some people, particularly those who are unusually sensitive to air pollution.">>,
       <<150, "Unhealthy for Sensitive Groups", "#ff7e00",
         "Members of sensitive groups may experience health effects. The general public is less likely to be affected.">>,
       <<200, "Unhealthy", "#ff0000",
         "Some members of the general public may experience health effects; members of sensitive groups may experience more serious health effects.">>,
       <<300, "Very Unhealthy", "#8f3f97",
         "Health alert: The risk of health effects is increased for everyone.">>,
       <<500, "Hazardous", "#7e0023",
         "Health warning of emergency conditions: everyone is more likely to be affected.">> >>

\* the global EPA_CATEGORIES as the functions read it
EPA_CATEGORIES == tables.EPA_CATEGORIES

\* a bug that gives the third NAQI category the threshold 150 of the third
\* EPA category
NAQI_CATEGORIES_epa_threshold ==
    << <<50, "Good", "#009966",
         "Minimal impact on health.">>,
       <<100, "Satisfactory", "#ffde33",
         "Minor breathing discomfort to sensitive people.">>,
       <<150, "Moderate", "#ff9933",
         "Breathing discomfort to people with lungs, asthma and heart diseases.">>,
       <<300, "Poor", "#ff0000",
         "Breathing discomfort to most people on prolonged exposure.">>,
       <<400, "Very Poor", "#990066",
         "Respiratory illness on prolonged exposure. Effect may be felt even in healthy people.">>,
       <<500, "Severe", "#7e0023",
         "Affects healthy people and seriously affects those with existing diseases. Avoid outdoor activities.">> >>

\* the list NAQI_CATEGORIES as the module builds it when it is loaded
NAQI_CATEGORIES_loaded ==
    << <<50, "Good", "#009966",
         "Minimal impact on health.">>,
       <<100, "Satisfactory", "#ffde33",
         "Minor breathing discomfort to sensitive people.">>,
       <<200, "Moderate", "#ff9933",
         "Breathing discomfort to people with lungs, asthma and heart diseases.">>,
       <<300, "Poor", "#ff0000",
         "Breathing discomfort to most people on prolonged exposure.">>,
       <<400, "Very Poor", "#990066",
         "Respiratory illness on prolonged exposure. Effect may be felt even in healthy people.">>,
       <<500, "Severe", "#7e0023",
         "Affects healthy people and seriously affects those with existing diseases. Avoid outdoor activities.">> >>

\* the global NAQI_CATEGORIES as the functions read it
NAQI_CATEGORIES == tables.NAQI_CATEGORIES

\* categories = EPA_CATEGORIES if standard == AQIStandard.EPA else NAQI_CATEGORIES
categories_of(std) == IF std = "epa" THEN EPA_CATEGORIES ELSE NAQI_CATEGORIES

\* a bug that compares with < where the scan compares with <=
get_aqi_category_strict(a, std) ==
    LET categories == categories_of(std)
        hits       == {k \in DOMAIN categories : a < categories[k][1]}
        row        == IF hits # {} THEN categories[Min(hits)]
                                   ELSE categories[Len(categories)]
    IN  <<row[2], row[3], row[4]>>

\* get_aqi_category(aqi, standard): the first row with aqi <= threshold,
\* the last row when there is none
get_aqi_category(a, std) ==
    LET categories == categories_of(std)
        hits       == {k \in DOMAIN categories : a <= categories[k][1]}
        row        == IF hits # {} THEN categories[Min(hits)]
                                   ELSE categories[Len(categories)]
    IN  <<row[2], row[3], row[4]>>

----------------------------------------------------------------------------
(* Rounding *)

\* The values round-to-nearest can return for the exact rational
\* n + r/den (n >= 0, 0 <= r < den) rounded to a multiple of unit:
\* the nearest multiple, or either neighbour at an exact tie.
RoundTo(unit, n, r, den) ==
    LET h     == n \div unit
        twice == 2 * ((n % unit) * den + r)
        full  == unit * den
    IN  IF twice < full THEN {unit * h}
        ELSE IF twice > full THEN {unit * (h + 1)}
        ELSE {unit * h, unit * (h + 1)}

----------------------------------------------------------------------------
(* Forward mapping: concentration -> sub-index *)

\* a bug that adds i_high where the formula adds i_low
Interpolate_from_i_high(b, c) ==
    LET num == (b[4] - b[3]) * (c - b[1])
        den == b[2] - b[1]
    IN  RoundTo(1, b[4] + (num \div den), num % den, den)

\* aqi = ((i_high - i_low) / (c_high - c_low)) * (concentration - c_low) + i_low
\* return round(aqi)
Interpolate(b, c) ==
    LET num == (b[4] - b[3]) * (c - b[1])
        den == b[2] - b[1]
    IN  RoundTo(1, b[3] + (num \div den), num % den, den)

\* a bug that excludes the upper end: c_low <= concentration < c_high
MatchingBrackets_half_open(c, breakpoints) ==
    {k \in DOMAIN breakpoints : breakpoints[k][1] <= c /\ c < breakpoints[k][2]}

\* brackets with c_low <= concentration <= c_high
MatchingBrackets(c, breakpoints) ==
    {k \in DOMAIN breakpoints : breakpoints[k][1] <= c /\ c <= breakpoints[k][2]}

\* a bug that extrapolates along the last bracket above the table
calculate_aqi_for_pollutant_extrapolating(c, breakpoints) ==
    IF c < 0 THEN {0}
    ELSE IF MatchingBrackets(c, breakpoints) # {}
         THEN Interpolate(breakpoints[Min(MatchingBrackets(c, breakpoints))], c)
         ELSE IF c > breakpoints[Len(breakpoints)][2]
              THEN Interpolate(breakpoints[Len(breakpoints)], c)
              ELSE {500}

\* a bug that drops the guard on negative concentrations
calculate_aqi_for_pollutant_unguarded(c, breakpoints) ==
    IF MatchingBrackets(c, breakpoints) # {}
    THEN Interpolate(breakpoints[Min(MatchingBrackets(c, breakpoints))], c)
    ELSE {500}

\* the set of values calculate_aqi_for_pollutant(concentration, breakpoints)
\* can return
calculate_aqi_for_pollutant(c, breakpoints) ==
    IF c < 0 THEN {0}
    ELSE IF MatchingBrackets(c, breakpoints) # {}
         THEN Interpolate(breakpoints[Min(MatchingBrackets(c, breakpoints))], c)
         ELSE {500}

----------------------------------------------------------------------------
(* Inverse mapping: EPA index -> estimated concentration *)

\* ((c_high - c_low) / (i_high - i_low)) * (aqi - i_low) + c_low, exactly,
\* as whole + rem/den with 0 <= rem < den.  a is the index in 1/AqiScale
\* units, a >= AqiScale * i_low.  The product (c_high - c_low) * (aqi - i_low)
\* is split into quotient and remainder before multiplying so that every
\* intermediate value stays exact.
ReverseDen(b) == AqiScale * (b[4] - b[3])

ReverseWhole(b, a) ==
    LET m == a - AqiScale * b[3]
        w == b[2] - b[1]
    IN  b[1] + (w \div ReverseDen(b)) * m + (((w % ReverseDen(b)) * m) \div ReverseDen(b))

ReverseRem(b, a) ==
    (((b[2] - b[1]) % ReverseDen(b)) * (a - AqiScale * b[3])) % ReverseDen(b)

\* a bug that rounds the estimate to one decimal place
Reverse_one_decimal(b, a) ==
    RoundTo(10 * Cent, ReverseWhole(b, a), ReverseRem(b, a), ReverseDen(b))

\* concentration = ((c_high - c_low) / (i_high - i_low)) * (aqi - i_low) + c_low
\* return round(concentration, 2)
Reverse(b, a) ==
    RoundTo(Cent, ReverseWhole(b, a), ReverseRem(b, a), ReverseDen(b))

\* brackets with i_low <= aqi <= i_high
MatchingBands(a, breakpoints) ==
    {k \in DOMAIN breakpoints :
        AqiScale * breakpoints[k][3] <= a /\ a <= AqiScale * breakpoints[k][4]}

\* a bug that gives up above the last bracket instead of extrapolating
epa_aqi_to_concentration_no_extrapolation(a, p) ==
    IF a = None \/ p \notin DOMAIN EPA_BREAKPOINTS THEN {None}
    ELSE LET breakpoints == EPA_BREAKPOINTS[p]
         IN  IF MatchingBands(a[1], breakpoints) # {}
             THEN {Some(c) : c \in
                     Reverse(breakpoints[Min(MatchingBands(a[1], breakpoints))], a[1])}
             ELSE {None}

\* the set of values epa_aqi_to_concentration(aqi, pollutant) can return
epa_aqi_to_concentration(a, p) ==
    IF a = None \/ p \notin DOMAIN EPA_BREAKPOINTS THEN {None}
    ELSE LET breakpoints == EPA_BREAKPOINTS[p]
             last        == breakpoints[Len(breakpoints)]
         IN  IF MatchingBands(a[1], breakpoints) # {}
             THEN {Some(c) : c \in
                     Reverse(breakpoints[Min(MatchingBands(a[1], breakpoints))], a[1])}
             ELSE IF a[1] > AqiScale * last[4]
                  THEN {Some(c) : c \in Reverse(last, a[1])}
                  ELSE {None}

----------------------------------------------------------------------------
(* Aggregation: calculate_aqi *)

\* the dict POLLUTANT_NAMES as the module builds it when it is loaded
POLLUTANT_NAMES_loaded ==
    [ pm25 |-> "PM2.5",
      pm10 |-> "PM10",
      co   |-> "CO",
      no2  |-> "NO₂",
      so2  |-> "SO₂",
      o3   |-> "O₃",
      nh3  |-> "NH₃" ]

\* the global POLLUTANT_NAMES as the functions read it
POLLUTANT_NAMES == tables.POLLUTANT_NAMES

\* str.upper() on the keys the model passes that have no display name
upper(k) ==
    IF k = "t" THEN "T"
    ELSE IF k = "nh3" THEN "NH3"
    ELSE k

\* POLLUTANT_NAMES.get(k, k.upper())
display_name(k) ==
    IF k \in DOMAIN POLLUTANT_NAMES THEN POLLUTANT_NAMES[k] ELSE upper(k)

\* a bug that reads a null concentration as 0 instead of skipping the entry
Computable_null_as_zero(ps, std) ==
    LET known(e) == e[1] \in DOMAIN breakpoint_table(std)
        kept     == SelectSeq(ps, known)
    IN  [i \in 1..Len(kept) |->
            IF kept[i][2] = None THEN <<kept[i][1], Some(0)>> ELSE kept[i]]

\* the entries the loop computes a sub-index for, in iteration order:
\* if concentration is not None and pollutant in breakpoint_table
Computable(ps, std) ==
    LET ok(e) == e[2] # None /\ e[1] \in DOMAIN breakpoint_table(std)
    IN  SelectSeq(ps, ok)

\* the values aqi_values can hold after the loop, as sequences of
\* <<pollutant, aqi_value>> in insertion order
computed_aqi_values(ps, std) ==
    LET todo     == Computable(ps, std)
        outcomes == [i \in 1..Len(todo) |->
                        calculate_aqi_for_pollutant(todo[i][2][1],
                                                    breakpoint_table(std)[todo[i][1]])]
        all      == UNION {outcomes[i] : i \in 1..Len(todo)}
    IN  { [i \in 1..Len(todo) |-> <<todo[i][1], g[i]>>] :
            g \in {h \in [1..Len(todo) -> all] : \A i \in 1..Len(todo) : h[i] \in outcomes[i]} }

\* a bug that always takes the EPA PM2.5 table for the demo value
sample_aqi_values_epa_only(std, smp) ==
    { << <<"pm25", r>> >> : r \in calculate_aqi_for_pollutant(smp, EPA_PM25_BREAKPOINTS) }

\* pm25_breakpoints = breakpoint_table.get('pm25', EPA_PM25_BREAKPOINTS)
\* aqi_values['pm25'] = calculate_aqi_for_pollutant(sample_pm25, pm25_breakpoints)
sample_aqi_values(std, smp) ==
    LET pm25_breakpoints == IF "pm25" \in DOMAIN breakpoint_table(std)
                            THEN breakpoint_table(std)["pm25"]
                            ELSE EPA_PM25_BREAKPOINTS
    IN  { << <<"pm25", r>> >> : r \in calculate_aqi_for_pollutant(smp, pm25_breakpoints) }

\* a bug that reports the sub-index of the last pollutant
max_aqi_last(aqi_values) == aqi_values[Len(aqi_values)][2]

\* max_aqi = max(aqi_values.values())
max_aqi(aqi_values) == Max({aqi_values[i][2] : i \in 1..Len(aqi_values)})

\* a bug that lets a later pollutant with an equal sub-index win
dominant_pollutant_last(aqi_values) ==
    aqi_values[Max({i \in 1..Len(aqi_values) : aqi_values[i][2] = max_aqi(aqi_values)})][1]

\* dominant_pollutant = max(aqi_values, key=aqi_values.get): the first key,
\* in iteration order, whose value is the largest
dominant_pollutant(aqi_values) ==
    aqi_values[Min({i \in 1..Len(aqi_values) :
                      \A j \in 1..Len(aqi_values) : aqi_values[j][2] <= aqi_values[i][2]})][1]

\* a bug that calls get_aqi_category without the standard, whose default is EPA
aqi_result_default_category(aqi_values, std) ==
    LET cat == get_aqi_category(max_aqi(aqi_values), "epa")
    IN  [ aqi                |-> max_aqi(aqi_values),
          category           |-> cat[1],
          color              |-> cat[2],
          dominant_pollutant |-> display_name(dominant_pollutant(aqi_values)),
          message            |-> cat[3],
          standard           |-> std,
          individual_aqis    |-> [i \in 1..Len(aqi_values) |->
                                    <<display_name(aqi_values[i][1]), aqi_values[i][2]>>] ]

\* the dict calculate_aqi returns for the final aqi_values
aqi_result(aqi_values, std) ==
    LET cat == get_aqi_category(max_aqi(aqi_values), std)
    IN  [ aqi                |-> max_aqi(aqi_values),
          category           |-> cat[1],
          color              |-> cat[2],
          dominant_pollutant |-> display_name(dominant_pollutant(aqi_values)),
          message            |-> cat[3],
          standard           |-> std,
          individual_aqis    |-> [i \in 1..Len(aqi_values) |->
                                    <<display_name(aqi_values[i][1]), aqi_values[i][2]>>] ]

\* the draw is made only if no valid pollutants were found
NeedsSample(ps, std) == Computable(ps, std) = << >>

\* the set of values calculate_aqi(pollutants, standard) can return when
\* random.uniform(0, 100), if called, returns smp (None if not called)
calculate_aqi(ps, std, smp) ==
    { aqi_result(v, std) :
        v \in IF NeedsSample(ps, std)
              THEN sample_aqi_values(std, smp[1])
              ELSE computed_aqi_values(ps, std) }

----------------------------------------------------------------------------
(* Reconciliation: calculate_naqi_from_epa_aqi *)

\* str() of a float that was rounded to 2 places (c in 1/Scale units,
\* c >= 0): 21.98 -> "21.98", 22.5 -> "22.5", 9.0 -> "9.0"
float_str(c) ==
    LET hundredths == (c % Scale) \div Cent
    IN  ToString(c \div Scale) \o "." \o
        (IF hundredths % 10 = 0 THEN ToString(hundredths \div 10)
         ELSE IF hundredths < 10 THEN "0" \o ToString(hundredths)
         ELSE ToString(hundredths))

\* a bug that applies the EPA table again in step 2
naqi_sub_index_epa_table(c, p) ==
    calculate_aqi_for_pollutant(c, EPA_BREAKPOINTS[p])

\* a bug that extends the last NAQI bracket upwards instead of capping at 500
naqi_sub_index_extrapolating(c, p) ==
    calculate_aqi_for_pollutant_extrapolating(c, NAQI_BREAKPOINTS[p])

\* naqi_aqi = calculate_aqi_for_pollutant(concentration, NAQI_BREAKPOINTS[pollutant])
naqi_sub_index(c, p) ==
    calculate_aqi_for_pollutant(c, NAQI_BREAKPOINTS[p])

\* what one iteration of the loop can add for the entry e = <<pollutant,
\* epa_aqi>>: nothing (continue), or the estimated concentration and, for a
\* pollutant with a NAQI table, its NAQI sub-index.  Each outcome is a
\* sequence of at most one record [pollutant, concentration, naqi (Optional)].
loop_step(e) ==
    IF e[2] = None \/ e[1] \notin DOMAIN EPA_BREAKPOINTS THEN {<< >>}
    ELSE UNION {
           IF c = None THEN {<< >>}
           ELSE IF e[1] \in DOMAIN NAQI_BREAKPOINTS
                THEN { <<[pollutant |-> e[1], concentration |-> c[1], naqi |-> Some(n)]>> :
                          n \in naqi_sub_index(c[1], e[1]) }
                ELSE { <<[pollutant |-> e[1], concentration |-> c[1], naqi |-> None]>> } :
           c \in epa_aqi_to_concentration(e[2], e[1]) }

RECURSIVE reconcile_loop_break(_)
\* a bug that stops the loop at the first pollutant that cannot be converted
reconcile_loop_break(d) ==
    IF d = << >> THEN {<< >>}
    ELSE UNION { IF h = << >> THEN {<< >>}
                 ELSE {h \o t : t \in reconcile_loop_break(Tail(d))} :
                 h \in loop_step(Head(d)) }

RECURSIVE reconcile_loop(_)
\* the loop over epa_aqi_values.items(): the sequences of records the
\* iterations can add, in iteration order
reconcile_loop(d) ==
    IF d = << >> THEN {<< >>}
    ELSE {h \o t : h \in loop_step(Head(d)), t \in reconcile_loop(Tail(d))}

\* naqi_values as a sequence of <<pollutant, naqi>>: the records that got a
\* NAQI sub-index
naqi_values_of(items) ==
    LET has(r) == r.naqi # None
        kept   == SelectSeq(items, has)
    IN  [i \in 1..Len(kept) |-> <<kept[i].pollutant, kept[i].naqi[1]>>]

\* the result returned if not naqi_values
naqi_unknown(items) ==
    [ naqi           |-> None,
      naqi_category  |-> "Unknown",
      naqi_color     |-> "#808080",
      naqi_message   |-> "Unable to calculate Indian NAQI",
      concentrations |-> [i \in 1..Len(items) |->
                            <<items[i].pollutant, items[i].concentration>>] ]

\* a bug that tests the overall value for truth, so that 0 counts as missing
naqi_result_zero_as_missing(items) ==
    LET naqi_values == naqi_values_of(items)
        cat         == get_aqi_category(max_aqi(naqi_values), "naqi")
    IN  IF naqi_values = << >> \/ max_aqi(naqi_values) = 0 THEN naqi_unknown(items)
        ELSE [ naqi            |-> Some(max_aqi(naqi_values)),
               naqi_category   |-> cat[1],
               naqi_color      |-> cat[2],
               naqi_message    |-> cat[3],
               naqi_dominant   |-> display_name(dominant_pollutant(naqi_values)),
               individual_naqi |-> [i \in 1..Len(naqi_values) |->
                                      <<display_name(naqi_values[i][1]), naqi_values[i][2]>>],
               concentrations  |-> [i \in 1..Len(items) |->
                                      <<display_name(items[i].pollutant),
                                        float_str(items[i].concentration) \o " μg/m³">>] ]

\* the dict returned for what the loop collected
naqi_result(items) ==
    LET naqi_values == naqi_values_of(items)
        cat         == get_aqi_category(max_aqi(naqi_values), "naqi")
    IN  IF naqi_values = << >> THEN naqi_unknown(items)
        ELSE [ naqi            |-> Some(max_aqi(naqi_values)),
               naqi_category   |-> cat[1],
               naqi_color      |-> cat[2],
               naqi_message    |-> cat[3],
               naqi_dominant   |-> display_name(dominant_pollutant(naqi_values)),
               individual_naqi |-> [i \in 1..Len(naqi_values) |->
                                      <<display_name(naqi_values[i][1]), naqi_values[i][2]>>],
               concentrations  |-> [i \in 1..Len(items) |->
                                      <<display_name(items[i].pollutant),
                                        float_str(items[i].concentration) \o " μg/m³">>] ]

\* the set of values calculate_naqi_from_epa_aqi(epa_aqi_values) can return
calculate_naqi_from_epa_aqi(d) ==
    { naqi_result(items) : items \in reconcile_loop(d) }

----------------------------------------------------------------------------
(* Subscriptions: subscribe_to_alerts, check_subscription_exists,          *)
(* add_subscription.  A contact is the sequence of its characters.         *)

NoRequest == [method |-> "", contact |-> << >>]

NoIo == [configured |-> TRUE, lookup |-> "", headers |-> "", append |-> ""]

NoResponse == [status |-> 0]

\* the header row ensure_headers writes (columns A, B, C, H); a cell of
\* column A is a sequence (an ID is <<"SUB_", second>>), a cell of column C
\* the sequence of its characters
HEADERS == << <<"ID">>, "Method", <<"C", "o", "n", "t", "a", "c", "t">>, "Status">>

\* '@' in contact
has_at(contact) == \E i \in DOMAIN contact : contact[i] = "@"

\* phone.startswith('+')
startswith_plus(contact) == Len(contact) > 0 /\ contact[1] = "+"

\* phone.replace('+', '').replace(' ', '').replace('-', '')
digits_only(contact) ==
    LET kept(ch) == ch \notin {"+", " ", "-"}
    IN  SelectSeq(contact, kept)

\* the detail of the 400 response the validation raises, "" if it passes
validation_error(req) ==
    IF req.method \notin {"email", "phone"}
    THEN "Method must be 'email' or 'phone'"
    ELSE IF req.method = "email" /\ ~has_at(req.contact)
    THEN "Invalid email address"
    ELSE IF req.method = "phone" /\ ~startswith_plus(req.contact)
    THEN "Phone number must include country code (e.g., +1 for US)"
    ELSE IF /\ req.method = "phone"
            /\ \/ Len(digits_only(req.contact)) < 8
               \/ Len(digits_only(req.contact)) > 15
    THEN "Invalid phone number length"
    ELSE ""

\* contacts = [row[0] for row in values if row] on column C
contact_column(rows) == [i \in 1..Len(rows) |-> rows[i][3]]

\* check_subscription_exists(contact): False without configuration, False if
\* the read raises, else contact in contacts
check_subscription_exists(contact, rows, env) ==
    /\ env.configured
    /\ env.lookup = "ok"
    /\ \E i \in 1..Len(rows) : contact_column(rows)[i] = contact

\* ensure_headers: the header row is written if A1:H1 is empty
with_headers(rows) == IF rows = << >> THEN <<HEADERS>> ELSE rows

\* f"SUB_{datetime.utcnow().strftime('%Y%m%d%H%M%S')}": the clock cut to
\* whole seconds
subscription_id(t) == <<"SUB_", t \div TicksPerSecond>>

\* the row add_subscription appends
subscription_row(req, t) == <<subscription_id(t), req.method, req.contact, "active">>

\* the sheet after add_subscription(...) under the I/O outcomes env
sheet_after_add(req, rows, t, env) ==
    IF ~env.configured \/ env.headers # "ok" THEN rows
    ELSE IF env.append # "ok" THEN with_headers(rows)
    ELSE Append(with_headers(rows), subscription_row(req, t))

\* the dict add_subscription(...) returns
add_subscription(req, t, env) ==
    IF ~env.configured
    THEN [success |-> TRUE, message |-> "Subscription recorded (fallback mode)",
          fallback |-> TRUE]
    ELSE IF env.headers # "ok"
    THEN [success |-> FALSE, error |-> "Failed to initialize spreadsheet"]
    ELSE IF env.append # "ok"
    THEN [success |-> FALSE, error |-> "Failed to save subscription"]
    ELSE [success |-> TRUE, message |-> "Successfully subscribed to daily AQI alerts!",
          subscription_id |-> subscription_id(t)]

\* the response of subscribe_to_alerts(request)
subscribe_response(req, rows, t, env) ==
    LET added == add_subscription(req, t, env)
    IN  IF validation_error(req) # ""
        THEN [status |-> 400, detail |-> validation_error(req)]
        ELSE IF check_subscription_exists(req.contact, rows, env)
        THEN [status |-> 200, success |-> TRUE,
              message |-> "You're already subscribed! We'll keep sending your daily alerts.",
              subscription_id |-> None]
        ELSE IF added.success
        THEN [status |-> 200, success |-> TRUE, message |-> added.message,
              subscription_id |-> IF "subscription_id" \in DOMAIN added
                                  THEN Some(added.subscription_id) ELSE None]
        ELSE [status |-> 500, detail |-> added.error]

\* the sheet after subscribe_to_alerts(request)
subscribe_sheet(req, rows, t, env) ==
    IF validation_error(req) # "" \/ check_subscription_exists(req.contact, rows, env)
    THEN rows
    ELSE sheet_after_add(req, rows, t, env)

----------------------------------------------------------------------------
(* aqicn_client: get_aqi_category, get_health_message and                  *)
(* fetch_aqi_by_location                                                   *)

\* a bug that puts the boundary values into the next category
aqicn_get_aqi_category_strict(a) ==
    IF a = None THEN <<"Unknown", "#808080">>
    ELSE IF a[1] < 50 THEN <<"Good", "#00e400">>
    ELSE IF a[1] < 100 THEN <<"Moderate", "#ffff00">>
    ELSE IF a[1] < 150 THEN <<"Unhealthy for Sensitive Groups", "#ff7e00">>
    ELSE IF a[1] < 200 THEN <<"Unhealthy", "#ff0000">>
    ELSE IF a[1] < 300 THEN <<"Very Unhealthy", "#8f3f97">>
    ELSE <<"Hazardous", "#7e0023">>

\* aqicn_client.get_aqi_category(aqi): <<category, color>>
aqicn_get_aqi_category(a) ==
    IF a = None THEN <<"Unknown", "#808080">>
    ELSE IF a[1] <= 50 THEN <<"Good", "#00e400">>
    ELSE IF a[1] <= 100 THEN <<"Moderate", "#ffff00">>
    ELSE IF a[1] <= 150 THEN <<"Unhealthy for Sensitive Groups", "#ff7e00">>
    ELSE IF a[1] <= 200 THEN <<"Unhealthy", "#ff0000">>
    ELSE IF a[1] <= 300 THEN <<"Very Unhealthy", "#8f3f97">>
    ELSE <<"Hazardous", "#7e0023">>

\* aqicn_client.get_health_message(aqi)
get_health_message(a) ==
    IF a = None THEN "No air quality data available for this location."
    ELSE IF a[1] <= 50
    THEN "Air quality is satisfactory, and air pollution poses little or no risk."
    ELSE IF a[1] <= 100
    THEN "Air quality is acceptable. However, there may be a risk for some people, particularly those who are unusually sensitive to air pollution."
    ELSE IF a[1] <= 150
    THEN "Members of sensitive groups may experience health effects. The general public is less likely to be affected."
    ELSE IF a[1] <= 200
    THEN "Some members of the general public may experience health effects; members of sensitive groups may experience more serious health effects."
    ELSE IF a[1] <= 300
    THEN "Health alert: The risk of health effects is increased for everyone."
    ELSE "Health warning of emergency conditions: everyone is more likely to be affected."

NoFeed == [aqi |-> None, dominant_pollutant |-> "", pollutants |-> << >>]

\* Python truth of an Optional number: None and 0 are false
truthy(v) == v # None /\ v[1] # 0

pollutant_display_names ==
    [ pm25 |-> "PM2.5",
      pm10 |-> "PM10",
      o3   |-> "Ozone (O₃)",
      no2  |-> "Nitrogen Dioxide (NO₂)",
      so2  |-> "Sulfur Dioxide (SO₂)",
      co   |-> "Carbon Monoxide (CO)",
      t    |-> "Temperature",
      h    |-> "Humidity",
      w    |-> "Wind",
      p    |-> "Pressure",
      wg   |-> "Wind Gust" ]

pollutant_units ==
    [ pm25 |-> "AQI", pm10 |-> "AQI", o3 |-> "AQI", no2 |-> "AQI", so2 |-> "AQI",
      co |-> "AQI", t |-> "°C", h |-> "%", w |-> "m/s", p |-> "hPa", wg |-> "m/s" ]

\* the list measurements: one entry per parameter of the feed
measurements_of(ps) ==
    [ i \in 1..Len(ps) |->
        [ parameter    |-> ps[i][1],
          display_name |-> IF ps[i][1] \in DOMAIN pollutant_display_names
                           THEN pollutant_display_names[ps[i][1]] ELSE upper(ps[i][1]),
          value        |-> ps[i][2],
          unit         |-> IF ps[i][1] \in DOMAIN pollutant_units
                           THEN pollutant_units[ps[i][1]] ELSE "AQI" ] ]

\* epa_aqi_values: the air quality pollutants of the feed
feed_epa_aqi_values(ps) ==
    LET air(e) == e[1] \in {"pm25", "pm10", "o3", "no2", "so2", "co"}
    IN  SelectSeq(ps, air)

\* the dict fetch_aqi_by_location returns when calculate_naqi_from_epa_aqi
\* returns nd (the fields copied from the feed unchanged are left out)
fetch_result(data, nd) ==
    LET epa_aqi == data.aqi
        epa_cat == IF truthy(epa_aqi) THEN aqicn_get_aqi_category(epa_aqi)
                   ELSE <<"Unknown", "#808080">>
        epa_message == IF truthy(epa_aqi) THEN get_health_message(epa_aqi)
                       ELSE "No data available"
        has(k)  == k \in DOMAIN nd
    IN  [ aqi                |-> IF truthy(nd.naqi) THEN nd.naqi ELSE epa_aqi,
          category           |-> IF has("naqi_category") THEN nd.naqi_category ELSE epa_cat[1],
          color              |-> IF has("naqi_color") THEN nd.naqi_color ELSE epa_cat[2],
          message            |-> IF has("naqi_message") THEN nd.naqi_message ELSE epa_message,
          aqi_standard       |-> IF truthy(nd.naqi) THEN "NAQI (India)" ELSE "EPA (US)",
          epa_aqi            |-> epa_aqi,
          epa_category       |-> epa_cat[1],
          epa_color          |-> epa_cat[2],
          naqi_breakdown     |-> IF has("individual_naqi") THEN Some(nd.individual_naqi) ELSE None,
          concentrations     |-> nd.concentrations,
          dominant_pollutant |-> IF has("naqi_dominant") THEN nd.naqi_dominant
                                 ELSE data.dominant_pollutant,
          measurements       |-> measurements_of(data.pollutants) ]

\* the set of values fetch_aqi_by_location can return for the parsed feed data
fetch_aqi_by_location(data) ==
    { fetch_result(data, nd) :
        nd \in calculate_naqi_from_epa_aqi(feed_epa_aqi_values(data.pollutants)) }

----------------------------------------------------------------------------
(* Inputs the callers are modelled to pass *)

\* concentrations tried against one table: negatives, every bracket and
\* every gap between consecutive brackets sampled at Sub-ths (bracket ends
\* included), and values above the top bracket
ConcInputs(breakpoints) ==
    LET n == Len(breakpoints)
    IN  {-(k * Scale) : k \in 1..MaxNeg}
        \cup {breakpoints[k][1] + (((breakpoints[k][2] - breakpoints[k][1]) * j) \div Sub) :
                 k \in 1..n, j \in 0..Sub}
        \cup {breakpoints[k][2] + (((breakpoints[k + 1][1] - breakpoints[k][2]) * j) \div Sub) :
                 k \in 1..(n - 1), j \in 1..(Sub - 1)}
        \cup {breakpoints[n][2] + 1}
        \cup {breakpoints[n][2] + k * Scale : k \in 1..MaxAbove}

\* indices handed to the inverse mapping: None and every multiple of
\* 1/AqiScale from -MaxNegAqi to MaxAqi
AqiInputs ==
    {None} \cup {Some(a) : a \in (-(AqiScale * MaxNegAqi))..(AqiScale * MaxAqi)}

\* pollutant keys handed to the inverse mapping: every key of either
\* standard (nh3 has no EPA table)
PollutantKeys == DOMAIN EPA_BREAKPOINTS \cup DOMAIN NAQI_BREAKPOINTS

\* indices handed to the categorizer: every integer from -MaxNegAqi to MaxAqi
CategoryInputs == (-MaxNegAqi)..MaxAqi

\* sequences of at most MaxEntries entries with pairwise distinct keys
\* (a dict in iteration order)
Dicts(entries) ==
    UNION { { d \in [1..n -> entries] :
                \A i \in 1..n : \A j \in 1..n : i # j => d[i][1] # d[j][1] } :
            n \in 0..MaxEntries }

\* keys handed to the aggregator and the reconciler: the pollutant keys and
\* "t" (temperature), a key of the measurement feed that has no table
DictKeys == PollutantKeys \cup {"t"}

\* values tried for one key of a dict handed to calculate_aqi: null; for a
\* key with a table under the standard a negative concentration, the first
\* bracket's c_high, the second bracket's c_low and a concentration above
\* the table; for a key without one, 10.0
ReadingValues(std, k) ==
    IF k \in DOMAIN breakpoint_table(std)
    THEN LET T == breakpoint_table(std)[k]
         IN  {None, Some(-Scale), Some(T[1][2]), Some(T[2][1]),
              Some(T[Len(T)][2] + Scale)}
    ELSE {None, Some(10 * Scale)}

\* dicts handed to calculate_aqi under a standard
Readings(std) ==
    Dicts(UNION {{<<k, v>> : v \in ReadingValues(std, k)} : k \in DictKeys})

\* values tried for one key of a dict handed to calculate_naqi_from_epa_aqi:
\* null and 150 for every key; for a key with an EPA table also an index
\* below every band, 0, 50, an index just above 50 (between two bands), and
\* MaxAqi
EpaAqiValues(k) ==
    IF k \in DOMAIN EPA_BREAKPOINTS
    THEN {None, Some(-AqiScale), Some(0), Some(50 * AqiScale), Some(50 * AqiScale + 1),
          Some(150 * AqiScale), Some(MaxAqi * AqiScale)}
    ELSE {None, Some(150 * AqiScale)}

\* dicts handed to calculate_naqi_from_epa_aqi: every dict of at most
\* MaxEntries entries over the values above, and every dict of one pollutant
\* with an index from 0 to 500 in steps of 1/AqiScale
EpaAqiDicts ==
    Dicts(UNION {{<<k, v>> : v \in EpaAqiValues(k)} : k \in DictKeys})
    \cup { << <<k, Some(a)>> >> : k \in DOMAIN EPA_BREAKPOINTS, a \in 0..(500 * AqiScale) }

\* contacts sent to /subscribe: two e-mail addresses, a text without '@',
\* a phone number of 8 digits, one of 7 digits and separators, one without '+'
Contacts ==
    { <<"a", "@", "b">>,
      <<"c", "@", "d">>,
      <<"a", "b">>,
      <<"+", "9", "1", "2", "3", "4", "5", "6", "7">>,
      <<"+", "1", "-", "2", "3", " ", "4", "5", "6", "7">>,
      <<"9", "1", "2", "3", "4", "5", "6", "7">> }

\* bodies of /subscribe requests
SubscriptionRequests ==
    [method : {"email", "phone", "sms"}, contact : Contacts]

\* outcomes of the I/O a request does: nothing is read or written unless the
\* validation passes; ensure_headers and the append run only if the lookup
\* finds nothing, the append only after ensure_headers
IoOutcomes(req, rows) ==
    IF validation_error(req) # "" THEN {NoIo}
    ELSE {[NoIo EXCEPT !.configured = FALSE]}
         \cup { e \in [configured : {TRUE}, lookup : {"ok", "fail"},
                       headers : {"", "ok", "fail"}, append : {"", "ok", "fail"}] :
                   /\ (e.headers = "") <=> check_subscription_exists(req.contact, rows, e)
                   /\ (e.append = "") <=> (e.headers # "ok") }

\* values tried for one parameter of a feed: for an air quality pollutant
\* null, 0, an index between two bands and 150; for others one reading
FeedValues(k) ==
    IF k \in DOMAIN EPA_BREAKPOINTS
    THEN {None, Some(0), Some(50 * AqiScale + 1), Some(150 * AqiScale)}
    ELSE {Some(30 * AqiScale)}

\* parsed feeds: the overall aqi (None for "-", else a non-negative int), the
\* dominant pollutant and the iaqi values
Feeds ==
    [ aqi                : {None, Some(0), Some(42), Some(150)},
      dominant_pollutant : {"", "pm25"},
      pollutants         : Dicts(UNION {{<<k, v>> : v \in FeedValues(k)} : k \in DictKeys}) ]

\* values random.uniform(0, 100) is modelled to return
SampleInputs == {(100 * Scale * k) \div SampleDiv : k \in 0..SampleDiv}

\* the module-level tables after the module is loaded
module_load ==
    [ EPA_BREAKPOINTS  |-> EPA_BREAKPOINTS_loaded,
      NAQI_BREAKPOINTS |-> NAQI_BREAKPOINTS_loaded,
      EPA_CATEGORIES   |-> EPA_CATEGORIES_loaded,
      NAQI_CATEGORIES  |-> NAQI_CATEGORIES_loaded,
      POLLUTANT_NAMES  |-> POLLUTANT_NAMES_loaded ]

----------------------------------------------------------------------------
(* State machine: the module is loaded (Init); a caller makes one call at  *)
(* a time; the call returns; the caller drops the result.                  *)

Init ==
    /\ tables = module_load
    /\ called = FALSE
    /\ op = "none"
    /\ standard = "epa"
    /\ pollutant = "pm25"
    /\ concentration = 0
    /\ aqi = None
    /\ index = 0
    /\ estimate = None
    /\ cat_aqi = 0
    /\ category = <<"", "", "">>
    /\ pollutants = << >>
    /\ sample = None
    /\ result = [aqi |-> 0]
    /\ epa_aqi_values = << >>
    /\ naqi_data = [naqi |-> None]
    /\ sheet = << >>
    /\ now = 0
    /\ request = NoRequest
    /\ io = NoIo
    /\ response = NoResponse
    /\ client_aqi = None
    /\ client_category = <<"", "">>
    /\ health_message = ""
    /\ feed = NoFeed
    /\ fetched = [aqi |-> None]

\* a call calculate_aqi_for_pollutant(c, breakpoint_table[p]) returns r
CallCalculateAqiForPollutant ==
    /\ op = "none"
    /\ \E std \in AQIStandard :
         \E p \in DOMAIN breakpoint_table(std) :
           \E c \in ConcInputs(breakpoint_table(std)[p]) :
             \E r \in calculate_aqi_for_pollutant(c, breakpoint_table(std)[p]) :
                /\ op' = "calculate_aqi_for_pollutant"
                /\ standard' = std
                /\ pollutant' = p
                /\ concentration' = c
                /\ index' = r
    /\ UNCHANGED <<tables, called, aqi, estimate, catVars, aggVars, recVars, subVars, cliVars>>

\* a bug that takes the last row with breakpoints.pop() where the source
\* reads breakpoints[-1]: the call removes the row from the module's table
CallEpaAqiToConcentration_popping ==
    /\ op = "none"
    /\ \E p \in PollutantKeys :
         \E a \in AqiInputs :
           \E e \in epa_aqi_to_concentration(a, p) :
              /\ op' = "epa_aqi_to_concentration"
              /\ standard' = "epa"
              /\ pollutant' = p
              /\ aqi' = a
              /\ estimate' = e
              /\ tables' =
                    IF /\ a # None
                       /\ p \in DOMAIN EPA_BREAKPOINTS
                       /\ MatchingBands(a[1], EPA_BREAKPOINTS[p]) = {}
                    THEN [tables EXCEPT !.EPA_BREAKPOINTS[p] =
                            SubSeq(@, 1, Len(@) - 1)]
                    ELSE tables
    /\ UNCHANGED <<called, concentration, index, catVars, aggVars, recVars, subVars, cliVars>>

\* a call epa_aqi_to_concentration(a, p) returns e
CallEpaAqiToConcentration ==
    /\ op = "none"
    /\ \E p \in PollutantKeys :
         \E a \in AqiInputs :
           \E e \in epa_aqi_to_concentration(a, p) :
              /\ op' = "epa_aqi_to_concentration"
              /\ standard' = "epa"
              /\ pollutant' = p
              /\ aqi' = a
              /\ estimate' = e
    /\ UNCHANGED <<tables, called, concentration, index, catVars, aggVars, recVars, subVars, cliVars>>

\* a call get_aqi_category(a, std) returns
CallGetAqiCategory ==
    /\ op = "none"
    /\ \E std \in AQIStandard :
         \E a \in CategoryInputs :
            /\ op' = "get_aqi_category"
            /\ standard' = std
            /\ cat_aqi' = a
            /\ category' = get_aqi_category(a, std)
    /\ UNCHANGED <<tables, called, pollutant, concentration, aqi, index, estimate, aggVars, recVars, subVars, cliVars>>

\* a call calculate_aqi(ps, std) returns res
CallCalculateAqi ==
    /\ op = "none"
    /\ \E std \in AQIStandard :
         \E ps \in Readings(std) :
           \E smp \in IF NeedsSample(ps, std) THEN {Some(c) : c \in SampleInputs}
                                              ELSE {None} :
             \E res \in calculate_aqi(ps, std, smp) :
                /\ op' = "calculate_aqi"
                /\ standard' = std
                /\ pollutants' = ps
                /\ sample' = smp
                /\ result' = res
    /\ UNCHANGED <<tables, called, pollutant, concentration, aqi, index, estimate, catVars, recVars, subVars, cliVars>>

\* a call calculate_naqi_from_epa_aqi(d) returns res
CallCalculateNaqiFromEpaAqi ==
    /\ op = "none"
    /\ \E d \in EpaAqiDicts :
         \E res \in calculate_naqi_from_epa_aqi(d) :
            /\ op' = "calculate_naqi_from_epa_aqi"
            /\ epa_aqi_values' = d
            /\ naqi_data' = res
    /\ UNCHANGED <<tables, called, mapVars, catVars, aggVars, subVars, cliVars>>

\* a POST /subscribe is handled: time has passed since the last request
\* (less than a tick, or a tick)
CallSubscribeToAlerts ==
    /\ op = "none"
    /\ Len(sheet) <= MaxRows
    /\ \E t \in {now, now + 1} :
         \E req \in SubscriptionRequests :
           \E env \in IoOutcomes(req, sheet) :
              /\ t <= MaxNow
              /\ op' = "subscribe_to_alerts"
              /\ now' = t
              /\ request' = req
              /\ io' = env
              /\ response' = subscribe_response(req, sheet, t, env)
              /\ sheet' = subscribe_sheet(req, sheet, t, env)
    /\ UNCHANGED <<tables, called, mapVars, catVars, aggVars, recVars, cliVars>>

\* a call aqicn_client.get_aqi_category(a) returns r
CallAqicnGetAqiCategory ==
    /\ op = "none"
    /\ \E a \in {None} \cup {Some(i) : i \in CategoryInputs} :
          /\ op' = "aqicn_get_aqi_category"
          /\ client_aqi' = a
          /\ client_category' = aqicn_get_aqi_category(a)
    /\ UNCHANGED <<tables, called, mapVars, catVars, aggVars, recVars, subVars,
                   health_message, feed, fetched>>

\* a call get_health_message(a) returns r
CallGetHealthMessage ==
    /\ op = "none"
    /\ \E a \in {None} \cup {Some(i) : i \in CategoryInputs} :
          /\ op' = "get_health_message"
          /\ client_aqi' = a
          /\ health_message' = get_health_message(a)
    /\ UNCHANGED <<tables, called, mapVars, catVars, aggVars, recVars, subVars,
                   client_category, feed, fetched>>

\* a call fetch_aqi_by_location(lat, lon) gets the parsed feed data and
\* returns res
CallFetchAqiByLocation ==
    /\ op = "none"
    /\ \E data \in Feeds :
         \E res \in fetch_aqi_by_location(data) :
            /\ op' = "fetch_aqi_by_location"
            /\ feed' = data
            /\ fetched' = res
    /\ UNCHANGED <<tables, called, mapVars, catVars, aggVars, recVars, subVars,
                   client_aqi, client_category, health_message>>

\* the caller is done with the returned value
Return ==
    /\ op # "none"
    /\ op' = "none"
    /\ standard' = "epa"
    /\ pollutant' = "pm25"
    /\ concentration' = 0
    /\ aqi' = None
    /\ index' = 0
    /\ estimate' = None
    /\ cat_aqi' = 0
    /\ category' = <<"", "", "">>
    /\ pollutants' = << >>
    /\ sample' = None
    /\ result' = [aqi |-> 0]
    /\ epa_aqi_values' = << >>
    /\ naqi_data' = [naqi |-> None]
    /\ request' = NoRequest
    /\ io' = NoIo
    /\ response' = NoResponse
    /\ client_aqi' = None
    /\ client_category' = <<"", "">>
    /\ health_message' = ""
    /\ feed' = NoFeed
    /\ fetched' = [aqi |-> None]
    /\ called' = TRUE
    /\ UNCHANGED <<tables, sheet, now>>

Next ==
    \/ CallCalculateAqiForPollutant
    \/ CallEpaAqiToConcentration
    \/ CallGetAqiCategory
    \/ Return

Spec == Init /\ [][Next]_vars

\* calls of the aggregator alone
NextAggregate ==
    \/ CallCalculateAqi
    \/ Return

SpecAggregate == Init /\ [][NextAggregate]_vars

\* calls of the reconciler alone
NextReconcile ==
    \/ CallCalculateNaqiFromEpaAqi
    \/ Return

SpecReconcile == Init /\ [][NextReconcile]_vars

\* any sequence of calls of the five functions
NextCore ==
    \/ CallCalculateAqiForPollutant
    \/ CallEpaAqiToConcentration
    \/ CallGetAqiCategory
    \/ CallCalculateAqi
    \/ CallCalculateNaqiFromEpaAqi
    \/ Return

SpecCore == Init /\ [][NextCore]_vars

\* /subscribe requests handled one at a time
NextSubscribe ==
    \/ CallSubscribeToAlerts
    \/ Return

SpecSubscribe == Init /\ [][NextSubscribe]_vars

\* calls of the functions of aqicn_client
NextClient ==
    \/ CallAqicnGetAqiCategory
    \/ CallGetHealthMessage
    \/ CallFetchAqiByLocation
    \/ Return

SpecClient == Init /\ [][NextClient]_vars

----------------------------------------------------------------------------
(* Properties *)

\* the table the last forward call was made on
Table == breakpoint_table(standard)[pollutant]

\* the last row of a table
LastBracket(breakpoints) == breakpoints[Len(breakpoints)]

ForwardReturned == op = "calculate_aqi_for_pollutant"

\* the inverse mapping returned from a call on a pollutant that has an EPA
\* table with an index that is not None
InverseReturned ==
    /\ op = "epa_aqi_to_concentration"
    /\ pollutant \in DOMAIN EPA_BREAKPOINTS
    /\ aqi # None

\* C1: calculate_aqi_for_pollutant is monotonically non-decreasing in the
\* concentration on every table: no smaller concentration of the same table
\* can be given a larger sub-index than the one just returned.  (Equal
\* concentrations are the same call and need no comparison.)
C1_MonotoneInConcentration ==
    ForwardReturned =>
        \A c1 \in ConcInputs(Table) :
            c1 < concentration =>
                \A r1 \in calculate_aqi_for_pollutant(c1, Table) : r1 <= index

\* C2: round trip over the EPA tables: for an integer index strictly inside
\* a bracket's index band, the sub-index of the estimated concentration
\* differs from the index by at most 1.
C2_RoundTripWithinOne ==
    (/\ InverseReturned
     /\ aqi[1] % AqiScale = 0
     /\ \E k \in DOMAIN EPA_BREAKPOINTS[pollutant] :
           /\ AqiScale * EPA_BREAKPOINTS[pollutant][k][3] < aqi[1]
           /\ aqi[1] < AqiScale * EPA_BREAKPOINTS[pollutant][k][4])
    => /\ estimate # None
       /\ \A r \in calculate_aqi_for_pollutant(estimate[1], EPA_BREAKPOINTS[pollutant]) :
             /\ r - 1 <= aqi[1] \div AqiScale
             /\ aqi[1] \div AqiScale <= r + 1

\* C3: epa_aqi_to_concentration returns a concentration, never None, for
\* every pollutant that has an EPA table and every index in [0, 500],
\* integer or fractional.
C3_FoundForEveryIndexUpTo500 ==
    (InverseReturned /\ 0 <= aqi[1] /\ aqi[1] <= AqiScale * 500)
    => estimate # None

\* C4: a concentration above the c_high of the table's last bracket yields
\* exactly 500, whatever the last bracket's i_high is.
C4_AboveTopBracketIs500 ==
    (ForwardReturned /\ concentration > LastBracket(Table)[2]) => index = 500

\* C4 witness: EPA O3 (last i_high 300) called above 0.200 returned 500.
C4_Witness ==
    /\ ForwardReturned
    /\ standard = "epa"
    /\ pollutant = "o3"
    /\ LastBracket(Table)[4] = 300
    /\ concentration > LastBracket(Table)[2]
    /\ index = 500

\* C5: a negative concentration yields 0 on every table.
C5_NegativeIsZero ==
    (ForwardReturned /\ concentration < 0) => index = 0

\* C5 witness: a call with concentration -5 returned 0.
C5_Witness ==
    /\ ForwardReturned
    /\ concentration = -(5 * Scale)
    /\ index = 0

\* C6: the sub-index returned for any concentration on any table is an
\* integer in 0..500.
C6_IndexInRange ==
    ForwardReturned => index \in 0..500

\* C6 witness: a call in the top bracket of a table returned more than the
\* bracket's i_low.
C6_Witness ==
    /\ ForwardReturned
    /\ LastBracket(Table)[1] < concentration
    /\ concentration < LastBracket(Table)[2]
    /\ index > LastBracket(Table)[3]
    /\ index < 500

\* C7: boundary exactness: a concentration equal to a bracket's c_low yields
\* its i_low and one equal to its c_high yields its i_high; EPA PM2.5 at 9.0
\* yields 50 and at 9.1 yields 51.
C7_BoundaryExact ==
    ForwardReturned =>
        /\ \A k \in DOMAIN Table :
              /\ concentration = Table[k][1] => index = Table[k][3]
              /\ concentration = Table[k][2] => index = Table[k][4]
        /\ (standard = "epa" /\ pollutant = "pm25" /\ concentration = 9 * Scale)
              => index = 50
        /\ (standard = "epa" /\ pollutant = "pm25" /\ 10 * concentration = 91 * Scale)
              => index = 51

\* C7 witness: EPA PM2.5 called at 9.0, the upper end of the first bracket,
\* returned 50.
C7_Witness ==
    /\ ForwardReturned
    /\ standard = "epa"
    /\ pollutant = "pm25"
    /\ concentration = Table[1][2]
    /\ concentration = 9 * Scale
    /\ index = 50

\* a table is well formed: every row has c_low < c_high and i_low < i_high,
\* and every row starts strictly above the end of the row before it
WellFormed(breakpoints) ==
    /\ \A k \in DOMAIN breakpoints :
          /\ breakpoints[k][1] < breakpoints[k][2]
          /\ breakpoints[k][3] < breakpoints[k][4]
    /\ \A k \in DOMAIN breakpoints :
          k > 1 =>
             /\ breakpoints[k][1] > breakpoints[k - 1][2]
             /\ breakpoints[k][3] > breakpoints[k - 1][4]

\* C8: the 13 breakpoint tables (6 EPA, 7 NAQI) are well formed, and so no
\* concentration passed to the forward mapping and no index passed to the
\* inverse mapping matches more than one bracket.
C8_TablesWellFormed ==
    /\ Cardinality(DOMAIN EPA_BREAKPOINTS) = 6
    /\ Cardinality(DOMAIN NAQI_BREAKPOINTS) = 7
    /\ \A std \in AQIStandard :
          \A p \in DOMAIN breakpoint_table(std) : WellFormed(breakpoint_table(std)[p])
    /\ ForwardReturned => Cardinality(MatchingBrackets(concentration, Table)) <= 1
    /\ InverseReturned =>
          Cardinality(MatchingBands(aqi[1], EPA_BREAKPOINTS[pollutant])) <= 1

\* C8 witness: a forward call on the EPA PM2.5 table whose concentration
\* lies in the second bracket matched that bracket alone.
C8_Witness ==
    /\ ForwardReturned
    /\ standard = "epa"
    /\ pollutant = "pm25"
    /\ MatchingBrackets(concentration, Table) = {2}

\* e (1/Scale units) is the exact value whole + rem/den rounded to the
\* nearest 0.01
NearestCent(e, whole, rem) ==
    /\ e % Cent = 0
    /\ 2 * e - Cent <= 2 * whole
    /\ \/ 2 * whole < 2 * e + Cent
       \/ 2 * whole = 2 * e + Cent /\ rem = 0

\* the first bracket whose index band holds the index a
FirstBand(a, breakpoints) ==
    CHOOSE k \in DOMAIN breakpoints :
        /\ AqiScale * breakpoints[k][3] <= a /\ a <= AqiScale * breakpoints[k][4]
        /\ \A j \in 1..(k - 1) :
              ~(AqiScale * breakpoints[j][3] <= a /\ a <= AqiScale * breakpoints[j][4])

\* C9: for an index inside some bracket's band of an EPA table the inverse
\* mapping returns c_low + (c_high - c_low) / (i_high - i_low) * (index - i_low)
\* of the first such bracket, rounded to 2 decimal places.
C9_InverseFormula ==
    (/\ InverseReturned
     /\ \E k \in DOMAIN EPA_BREAKPOINTS[pollutant] :
           /\ AqiScale * EPA_BREAKPOINTS[pollutant][k][3] <= aqi[1]
           /\ aqi[1] <= AqiScale * EPA_BREAKPOINTS[pollutant][k][4])
    => /\ estimate # None
       /\ LET b == EPA_BREAKPOINTS[pollutant][FirstBand(aqi[1], EPA_BREAKPOINTS[pollutant])]
          IN  NearestCent(estimate[1], ReverseWhole(b, aqi[1]), ReverseRem(b, aqi[1]))

\* C9 witness: EPA PM2.5 index 75 was estimated as 9.1 + 26.3/49 * 24
\* = 21.9816... rounded to 2 places, 21.98.
C9_Witness ==
    /\ InverseReturned
    /\ pollutant = "pm25"
    /\ aqi = Some(75 * AqiScale)
    /\ estimate = Some(2198 * Cent)

\* C10: for an index above the last bracket's i_high of an EPA table the
\* inverse mapping never returns None: it returns the extrapolation along the
\* last bracket rounded to 2 places, which is not below that bracket's c_high,
\* whereas the forward mapping returns 500 for what lies above it.
C10_ExtrapolatesAboveLastBand ==
    (InverseReturned /\ aqi[1] > AqiScale * LastBracket(EPA_BREAKPOINTS[pollutant])[4])
    => /\ estimate # None
       /\ LET b == LastBracket(EPA_BREAKPOINTS[pollutant])
          IN  /\ NearestCent(estimate[1], ReverseWhole(b, aqi[1]), ReverseRem(b, aqi[1]))
              /\ estimate[1] >= b[2]
              /\ estimate[1] > b[2] =>
                    calculate_aqi_for_pollutant(estimate[1], EPA_BREAKPOINTS[pollutant]) = {500}

\* C10 witness: EPA O3 (last band ends at 300) index 400 was estimated above
\* the last bracket's c_high.
C10_Witness ==
    /\ InverseReturned
    /\ pollutant = "o3"
    /\ aqi = Some(400 * AqiScale)
    /\ estimate # None
    /\ estimate[1] > LastBracket(EPA_BREAKPOINTS[pollutant])[2]

CategoryReturned == op = "get_aqi_category"

\* the position in a category table an index belongs to by its thresholds:
\* the row whose threshold is the least one >= a, the last row above them all
CategoryRow(a, categories) ==
    IF a > categories[Len(categories)][1] THEN Len(categories)
    ELSE CHOOSE k \in DOMAIN categories :
            /\ a <= categories[k][1]
            /\ k > 1 => a > categories[k - 1][1]

\* C11: get_aqi_category is total and returns the first row of the
\* standard's category table whose threshold is >= the index, the last row
\* above 500; so an index equal to a threshold gets that row and the index
\* one above it gets the next row (EPA: 50 is Good/#00e400, 51 is
\* Moderate/#ffff00).
C11_CategoryByThreshold ==
    CategoryReturned =>
        LET categories == categories_of(standard)
            row        == categories[CategoryRow(cat_aqi, categories)]
        IN  /\ category = <<row[2], row[3], row[4]>>
            /\ \A k \in DOMAIN categories :
                  /\ cat_aqi = categories[k][1] => category[1] = categories[k][2]
                  /\ (cat_aqi = categories[k][1] + 1 /\ k < Len(categories))
                        => category[1] = categories[k + 1][2]
            /\ (standard = "epa" /\ cat_aqi = 50)
                  => (category[1] = "Good" /\ category[2] = "#00e400")
            /\ (standard = "epa" /\ cat_aqi = 51)
                  => (category[1] = "Moderate" /\ category[2] = "#ffff00")
            /\ cat_aqi > 500 => category[1] = categories[Len(categories)][2]

\* C11 witness: the EPA categorizer called with 51, one above the first
\* threshold, returned Moderate.
C11_Witness ==
    /\ CategoryReturned
    /\ standard = "epa"
    /\ cat_aqi = EPA_CATEGORIES[1][1] + 1
    /\ category[1] = "Moderate"
    /\ category[2] = "#ffff00"

AggregateReturned == op = "calculate_aqi"

\* the entries of the reading that have a table under the standard and a
\* non-null concentration, in the reading's order
RecognizedEntries ==
    LET recognized(e) == e[1] \in DOMAIN breakpoint_table(standard) /\ e[2] # None
    IN  SelectSeq(pollutants, recognized)

\* the entries of the reading that are not recognized
SkippedEntries ==
    LET skipped(e) == e[1] \notin DOMAIN breakpoint_table(standard) \/ e[2] = None
    IN  SelectSeq(pollutants, skipped)

\* C12: for a reading with at least one recognized, non-null pollutant the
\* per-pollutant map has one entry per recognized pollutant, each the
\* sub-index of its concentration under the standard's table, and the overall
\* index is the maximum of these entries.
C12_OverallIsMaxOfSubIndices ==
    (AggregateReturned /\ RecognizedEntries # << >>) =>
        /\ Len(result.individual_aqis) = Len(RecognizedEntries)
        /\ \A i \in 1..Len(RecognizedEntries) :
              /\ result.individual_aqis[i][1] = display_name(RecognizedEntries[i][1])
              /\ result.individual_aqis[i][2] \in
                    calculate_aqi_for_pollutant(RecognizedEntries[i][2][1],
                        breakpoint_table(standard)[RecognizedEntries[i][1]])
        /\ \E i \in 1..Len(result.individual_aqis) :
              result.aqi = result.individual_aqis[i][2]
        /\ \A i \in 1..Len(result.individual_aqis) :
              result.individual_aqis[i][2] <= result.aqi

\* C12 witness: a reading of two recognized pollutants whose first sub-index
\* is the larger one returned the first as overall index.
C12_Witness ==
    /\ AggregateReturned
    /\ Len(RecognizedEntries) = 2
    /\ Len(result.individual_aqis) = 2
    /\ result.individual_aqis[1][2] > result.individual_aqis[2][2]
    /\ result.aqi = result.individual_aqis[1][2]

\* C13: the dominant pollutant has a sub-index equal to the overall index,
\* and among the pollutants that tie for it, it is the one that comes first
\* in the reading's iteration order.
C13_DominantIsFirstMaximum ==
    (AggregateReturned /\ RecognizedEntries # << >>) =>
        \E i \in 1..Len(RecognizedEntries) :
            /\ i <= Len(result.individual_aqis)
            /\ result.dominant_pollutant = display_name(RecognizedEntries[i][1])
            /\ result.individual_aqis[i][1] = result.dominant_pollutant
            /\ result.individual_aqis[i][2] = result.aqi
            /\ \A j \in 1..(i - 1) : result.individual_aqis[j][2] # result.aqi

\* C13 witness: two recognized pollutants tied for the maximum and the first
\* of the reading was reported dominant.
C13_Witness ==
    /\ AggregateReturned
    /\ Len(RecognizedEntries) = 2
    /\ Len(result.individual_aqis) = 2
    /\ result.individual_aqis[1][2] = result.individual_aqis[2][2]
    /\ result.individual_aqis[1][2] = 50
    /\ result.dominant_pollutant = display_name(RecognizedEntries[1][1])

\* C14: entries whose key has no table under the standard and entries with
\* a null concentration are skipped: they have no entry in the per-pollutant
\* map, and the result is a result of the call on the recognized entries
\* alone.
C14_SkipsUnrecognizedAndNull ==
    (AggregateReturned /\ RecognizedEntries # << >>) =>
        /\ \A i \in 1..Len(SkippedEntries) :
              \A j \in 1..Len(result.individual_aqis) :
                  result.individual_aqis[j][1] # display_name(SkippedEntries[i][1])
        /\ result \in calculate_aqi(RecognizedEntries, standard, None)

\* C14 witness: under EPA a reading holding nh3 (a NAQI-only key) with a
\* concentration, and one recognized pollutant, returned a map of one entry.
C14_Witness ==
    /\ AggregateReturned
    /\ standard = "epa"
    /\ Len(pollutants) = 2
    /\ pollutants[1][1] = "nh3"
    /\ pollutants[1][2] # None
    /\ Len(RecognizedEntries) = 1
    /\ Len(result.individual_aqis) = 1
    /\ result.dominant_pollutant = display_name(pollutants[2][1])

\* C15: for a reading that is empty or has no recognized non-null
\* pollutant the call returns a result whose per-pollutant map has exactly
\* one entry, for pm25, equal to the sub-index of a drawn concentration in
\* [0, 100] under the standard's pm25 table, with pm25 dominant.
C15_DemoFallback ==
    (AggregateReturned /\ RecognizedEntries = << >>) =>
        /\ sample # None
        /\ 0 <= sample[1] /\ sample[1] <= 100 * Scale
        /\ Len(result.individual_aqis) = 1
        /\ result.individual_aqis[1][1] = POLLUTANT_NAMES["pm25"]
        /\ result.individual_aqis[1][2] \in
              calculate_aqi_for_pollutant(sample[1], breakpoint_table(standard)["pm25"])
        /\ result.aqi = result.individual_aqis[1][2]
        /\ result.dominant_pollutant = POLLUTANT_NAMES["pm25"]

\* C15 witness: under NAQI a reading with only a null entry drew a
\* positive concentration and returned its NAQI pm25 sub-index.
C15_Witness ==
    /\ AggregateReturned
    /\ standard = "naqi"
    /\ Len(pollutants) = 1
    /\ pollutants[1][2] = None
    /\ sample # None
    /\ sample[1] > 0
    /\ Len(result.individual_aqis) = 1
    /\ result.aqi > 0

----------------------------------------------------------------------------
(* Reconciliation *)

ReconcileReturned == op = "calculate_naqi_from_epa_aqi"

\* the entries of d with a non-null index, an EPA table and an index that
\* epa_aqi_to_concentration converts
Invertible(d) ==
    LET inverts(e) == /\ e[2] # None
                      /\ e[1] \in DOMAIN EPA_BREAKPOINTS
                      /\ None \notin epa_aqi_to_concentration(e[2], e[1])
    IN  SelectSeq(d, inverts)

\* the entries of d that yield a NAQI sub-index
Yielding(d) ==
    LET has_table(e) == e[1] \in DOMAIN NAQI_BREAKPOINTS
    IN  SelectSeq(Invertible(d), has_table)

NAQI_LABELS == {NAQI_CATEGORIES[i][2] : i \in 1..Len(NAQI_CATEGORIES)}

\* C16: for every pollutant present with a non-null EPA index that inverts,
\* the reported NAQI sub-index is calculate_aqi_for_pollutant, on the NAQI
\* table, of the very concentration epa_aqi_to_concentration estimated from
\* the EPA table (the one also reported, unconverted, under
\* 'concentrations'); the overall naqi is the maximum of these sub-indices and
\* category, color and message are get_aqi_category(max, NAQI).
C16_ReconcileTwoSteps ==
    LET inv == Invertible(epa_aqi_values)
    IN  (ReconcileReturned /\ inv # << >>) =>
           /\ naqi_data.naqi # None
           /\ Len(naqi_data.individual_naqi) = Len(inv)
           /\ Len(naqi_data.concentrations) = Len(inv)
           /\ \A i \in 1..Len(inv) :
                \E c \in epa_aqi_to_concentration(inv[i][2], inv[i][1]) :
                   /\ c # None
                   /\ naqi_data.concentrations[i] =
                         <<display_name(inv[i][1]), float_str(c[1]) \o " μg/m³">>
                   /\ naqi_data.individual_naqi[i][1] = display_name(inv[i][1])
                   /\ naqi_data.individual_naqi[i][2] \in
                         calculate_aqi_for_pollutant(c[1], NAQI_BREAKPOINTS[inv[i][1]])
           /\ naqi_data.naqi[1] =
                 Max({naqi_data.individual_naqi[i][2] : i \in 1..Len(inv)})
           /\ <<naqi_data.naqi_category, naqi_data.naqi_color, naqi_data.naqi_message>> =
                 get_aqi_category(naqi_data.naqi[1], "naqi")

\* {'pm25': 150, 'pm10': 50}: 55.4 and 54.0 ug/m3, NAQI sub-indices 92 and 54
C16_Witness ==
    /\ ReconcileReturned
    /\ epa_aqi_values = << <<"pm25", Some(150 * AqiScale)>>, <<"pm10", Some(50 * AqiScale)>> >>
    /\ naqi_data.individual_naqi = << <<"PM2.5", 92>>, <<"PM10", 54>> >>
    /\ naqi_data.concentrations = << <<"PM2.5", "55.4 μg/m³">>, <<"PM10", "54.0 μg/m³">> >>
    /\ naqi_data.naqi = Some(92)
    /\ naqi_data.naqi_category = "Satisfactory"

\* C17: the result is the sentinel (naqi None, 'Unknown', '#808080', 'Unable
\* to calculate Indian NAQI') exactly when no entry of the input yields a NAQI
\* sub-index; in every other case naqi is not None.
C17_SentinelIffNothingYields ==
    ReconcileReturned =>
       /\ (naqi_data.naqi = None) <=> (Yielding(epa_aqi_values) = << >>)
       /\ (naqi_data.naqi = None) =>
             /\ naqi_data.naqi_category = "Unknown"
             /\ naqi_data.naqi_color = "#808080"
             /\ naqi_data.naqi_message = "Unable to calculate Indian NAQI"

\* {'pm25': 0}: concentration 0.0, sub-index 0, and naqi is 0, not None
C17_Witness ==
    /\ ReconcileReturned
    /\ epa_aqi_values = << <<"pm25", Some(0)>> >>
    /\ naqi_data.naqi = Some(0)
    /\ naqi_data.naqi_category = "Good"

\* C18: whenever at least one entry has an EPA index that inverts, naqi is an
\* integer in 0..500 and the category is one of the six NAQI labels.
C18_NaqiInRange ==
    (ReconcileReturned /\ Invertible(epa_aqi_values) # << >>) =>
       /\ naqi_data.naqi # None
       /\ naqi_data.naqi[1] \in 0..500
       /\ naqi_data.naqi_category \in NAQI_LABELS
       /\ naqi_data.naqi_category # "Unknown"

\* an NO2 index above 500 is extrapolated to a concentration above the last
\* NAQI bracket: the sub-index is capped at 500
C18_Witness ==
    /\ ReconcileReturned
    /\ epa_aqi_values = << <<"no2", Some(MaxAqi * AqiScale)>> >>
    /\ naqi_data.naqi = Some(500)
    /\ naqi_data.naqi_category = "Severe"

\* C19: for an input that mixes entries that invert with entries that do not
\* (null, no EPA table, or an index no band holds), the result is one the
\* function returns for the input restricted to the entries that invert.
C19_MissIsNotFatal ==
    LET inv == Invertible(epa_aqi_values)
    IN  (ReconcileReturned /\ inv # << >> /\ inv # epa_aqi_values) =>
           naqi_data \in calculate_naqi_from_epa_aqi(inv)

\* {'pm25': 50.5, 'pm10': 150}: no PM2.5 band holds 50.5; PM10 alone decides
C19_Witness ==
    /\ ReconcileReturned
    /\ epa_aqi_values = << <<"pm25", Some(50 * AqiScale + 1)>>, <<"pm10", Some(150 * AqiScale)>> >>
    /\ naqi_data.naqi # None
    /\ naqi_data.naqi_dominant = "PM10"
    /\ Len(naqi_data.individual_naqi) = 1

----------------------------------------------------------------------------
(* Statelessness *)

\* C20: after any sequence of calls of the five functions the breakpoint
\* and category tables are the ones the module loaded, and the value a call
\* has returned is a value the function gives for its arguments alone (for
\* calculate_aqi: on a reading with at least one recognized pollutant, where
\* no random draw is made), whatever calls went before.
C20_Stateless ==
    /\ tables = module_load
    /\ ForwardReturned =>
          index \in calculate_aqi_for_pollutant(concentration, Table)
    /\ op = "epa_aqi_to_concentration" =>
          estimate \in epa_aqi_to_concentration(aqi, pollutant)
    /\ CategoryReturned =>
          category = get_aqi_category(cat_aqi, standard)
    /\ (AggregateReturned /\ RecognizedEntries # << >>) =>
          /\ sample = None
          /\ result \in calculate_aqi(pollutants, standard, None)
    /\ ReconcileReturned =>
          naqi_data \in calculate_naqi_from_epa_aqi(epa_aqi_values)

\* a reconciliation made after earlier calls: {'pm25': 150} gives 92
C20_Witness ==
    /\ called
    /\ ReconcileReturned
    /\ epa_aqi_values = << <<"pm25", Some(150 * AqiScale)>> >>
    /\ naqi_data.naqi = Some(92)
    /\ tables = module_load

----------------------------------------------------------------------------
(* Coverage of the tables *)

\* C21: for every table and every concentration from 0 up to the c_high of
\* the table's last bracket, calculate_aqi_for_pollutant finds a bracket with
\* c_low <= c <= c_high and returns a value between that bracket's i_low and
\* i_high (so 500 without interpolation is returned only above the top
\* bracket).
C21_EveryConcentrationHasABracket ==
    (ForwardReturned /\ 0 <= concentration /\ concentration <= LastBracket(Table)[2]) =>
       \E k \in DOMAIN Table :
          /\ Table[k][1] <= concentration
          /\ concentration <= Table[k][2]
          /\ Table[k][3] <= index
          /\ index <= Table[k][4]

\* C22: in every result of calculate_aqi, for either standard and any reading
\* (the demo fallback included), category, color and message are
\* get_aqi_category(result index, the same standard), and the 'standard'
\* field is the value of the standard the call was made with.
C22_CategoryOfSameStandard ==
    AggregateReturned =>
       /\ <<result.category, result.color, result.message>> =
             get_aqi_category(result.aqi, standard)
       /\ result.standard = standard

\* a NAQI reading with overall index 51 is "Satisfactory", a NAQI-only label
C22_Witness ==
    /\ AggregateReturned
    /\ standard = "naqi"
    /\ RecognizedEntries # << >>
    /\ result.aqi = 51
    /\ result.category = "Satisfactory"
    /\ result.color = "#ffde33"
    /\ result.standard = "naqi"

----------------------------------------------------------------------------
(* Subscriptions *)

SubscribeReturned == op = "subscribe_to_alerts"

\* the rows of the sheet below the header row
SubscriptionRows ==
    LET is_subscription(row) == row # HEADERS
    IN  SelectSeq(sheet, is_subscription)

\* C23: a /subscribe request that passes the validation and whose contact is
\* already in the sheet's contact column gets the success response with the
\* already-subscribed message, and the sheet is left as it was (no row is
\* appended).
C23_AlreadySubscribedLeavesSheet ==
    [][ ( /\ SubscribeReturned'
          /\ io'.configured
          /\ validation_error(request') = ""
          /\ \E i \in 1..Len(sheet) : contact_column(sheet)[i] = request'.contact )
        => ( /\ response'.status = 200
             /\ response'.success
             /\ response'.message =
                   "You're already subscribed! We'll keep sending your daily alerts."
             /\ sheet' = sheet ) ]_vars

\* C27: after any sequence of /subscribe requests handled one at a time
\* against a configured sheet, the sheet holds at most one row per contact
\* and no two rows share a subscription ID.
C27_OneRowPerContactUniqueIds ==
    LET rows == SubscriptionRows
    IN  \A i \in 1..Len(rows) : \A j \in 1..Len(rows) :
           i # j => /\ rows[i][3] # rows[j][3]
                    /\ rows[i][1] # rows[j][1]

----------------------------------------------------------------------------
(* Order and range of the reconciliation *)

\* the NAQI sub-indices calculate_naqi_from_epa_aqi({p: e}) can report for
\* the pollutant (none if the index does not invert)
SubIndexFrom(p, e) ==
    { res.individual_naqi[1][2] :
        res \in { r \in calculate_naqi_from_epa_aqi(<< <<p, Some(e)>> >>) : r.naqi # None } }

\* C24: for every pollutant with an EPA table and any two EPA indices
\* e1 <= e2 in 0..500, the NAQI sub-index derived from e1 is <= the one
\* derived from e2 (stated for e1 < e2: at equal indices there is one call).
C24_ReconcilePreservesOrder ==
    ( /\ ReconcileReturned
      /\ Len(epa_aqi_values) = 1
      /\ epa_aqi_values[1][1] \in DOMAIN EPA_BREAKPOINTS
      /\ epa_aqi_values[1][2] # None
      /\ epa_aqi_values[1][2][1] \in 0..(500 * AqiScale)
      /\ naqi_data.naqi # None )
    => \A e1 \in 0..(epa_aqi_values[1][2][1] - 1) :
          \A n1 \in SubIndexFrom(epa_aqi_values[1][1], e1) :
             n1 <= naqi_data.individual_naqi[1][2]

\* C25: for every EPA table and every index inside a bracket's band
\* [i_low, i_high], the concentration epa_aqi_to_concentration returns (after
\* the rounding to 2 decimals) lies within that same bracket's
\* [c_low, c_high].  Indices whose exact estimate is half way between two
\* hundredths are left out: there the model does not fix the float result.
C25_EstimateStaysInBracket ==
    (/\ InverseReturned
     /\ Cardinality(epa_aqi_to_concentration(aqi, pollutant)) = 1
     /\ \E k \in DOMAIN EPA_BREAKPOINTS[pollutant] :
           /\ AqiScale * EPA_BREAKPOINTS[pollutant][k][3] <= aqi[1]
           /\ aqi[1] <= AqiScale * EPA_BREAKPOINTS[pollutant][k][4])
    => /\ estimate # None
       /\ LET b == EPA_BREAKPOINTS[pollutant][FirstBand(aqi[1], EPA_BREAKPOINTS[pollutant])]
          IN  b[1] <= estimate[1] /\ estimate[1] <= b[2]

\* C26: the aqi, category, color, message and aqi_standard that
\* fetch_aqi_by_location reports belong to one standard: with aqi_standard
\* "NAQI (India)" they are the NAQI value and its NAQI category, with
\* "EPA (US)" the category, color and message are the EPA ones for the
\* reported EPA aqi
C26_ReportOfOneStandard ==
    op = "fetch_aqi_by_location" =>
        LET shown == <<fetched.category, fetched.color, fetched.message>>
        IN  /\ fetched.aqi_standard = "NAQI (India)" =>
                /\ fetched.naqi_breakdown # None
                /\ fetched.aqi = Some(max_aqi(fetched.naqi_breakdown[1]))
                /\ shown = get_aqi_category(fetched.aqi[1], "naqi")
            /\ fetched.aqi_standard = "EPA (US)" =>
                /\ fetched.aqi = fetched.epa_aqi
                /\ shown = <<fetched.epa_category, fetched.epa_color,
                             IF truthy(fetched.epa_aqi)
                             THEN get_health_message(fetched.epa_aqi)
                             ELSE "No data available">>

\* C28: for every integer aqi, aqicn_client.get_aqi_category(aqi) returns the
\* label and color, and get_health_message(aqi) the message, that
\* aqi_calculator.get_aqi_category(aqi, EPA) returns
C28_EpaCategorizersAgree ==
    /\ (op = "aqicn_get_aqi_category" /\ client_aqi # None) =>
          LET c == get_aqi_category(client_aqi[1], "epa")
          IN  client_category = <<c[1], c[2]>>
    /\ (op = "get_health_message" /\ client_aqi # None) =>
          health_message = get_aqi_category(client_aqi[1], "epa")[3]

C28_Witness ==
    /\ op = "aqicn_get_aqi_category"
    /\ client_aqi = Some(150)
    /\ client_category = <<"Unhealthy for Sensitive Groups", "#ff7e00">>

\* the rows of table T whose band holds the concentration c
BracketsHolding(c, T) == {k \in DOMAIN T : T[k][1] <= c /\ c <= T[k][2]}

\* the rows of a category table whose band, from above the threshold of the
\* row before up to the row's own threshold, holds every index from lo to hi
CategoryBandsHolding(lo, hi, categories) ==
    {j \in DOMAIN categories :
        /\ hi <= categories[j][1]
        /\ j > 1 => categories[j-1][1] < lo}

\* C29: for each standard, the index band [i_lo, i_hi] of every bracket of
\* every pollutant table lies inside exactly one band of the standard's
\* category table, and a concentration inside a bracket is given the category
\* label of that bracket's i_lo by
\* get_aqi_category(calculate_aqi_for_pollutant(c, T), standard), so all
\* concentrations of one bracket get the same label
C29_BracketWithinOneCategory ==
    /\ \A std \in AQIStandard : \A p \in DOMAIN breakpoint_table(std) :
         \A k \in DOMAIN breakpoint_table(std)[p] :
            LET b == breakpoint_table(std)[p][k]
            IN  Cardinality(CategoryBandsHolding(b[3], b[4], categories_of(std))) = 1
    /\ ForwardReturned =>
         \A k \in BracketsHolding(concentration, Table) :
            get_aqi_category(index, standard)[1]
               = get_aqi_category(Table[k][3], standard)[1]

C29_Witness ==
    /\ ForwardReturned
    /\ standard = "naqi"
    /\ \E k \in BracketsHolding(concentration, Table) :
          /\ Table[k][3] = 101
          /\ Table[k][3] < index
          /\ index < Table[k][4]
          /\ get_aqi_category(index, standard)[1] = "Moderate"

\* the keys of a dict kept as a sequence of <<key, value>>
Keys(d) == {d[i][1] : i \in DOMAIN d}

\* C30: every pollutant calculate_naqi_from_epa_aqi estimates a concentration
\* for also gets a NAQI sub-index (every pollutant of EPA_BREAKPOINTS is a key
\* of NAQI_BREAKPOINTS): 'concentrations' and 'individual_naqi' have the same
\* keys, and the result with naqi None has no concentrations
C30_ConcentrationsMatchSubIndices ==
    /\ DOMAIN EPA_BREAKPOINTS \subseteq DOMAIN NAQI_BREAKPOINTS
    /\ ReconcileReturned =>
         IF naqi_data.naqi = None
         THEN naqi_data.concentrations = << >>
         ELSE Keys(naqi_data.concentrations) = Keys(naqi_data.individual_naqi)

\* {'co': .., 'pm25': ..}: both estimated, both with a sub-index
C30_Witness ==
    /\ ReconcileReturned
    /\ naqi_data.naqi # None
    /\ Keys(naqi_data.concentrations) = {"CO", "PM2.5"}
    /\ Keys(naqi_data.individual_naqi) = {"CO", "PM2.5"}

====
